---- MODULE Spec2Model ----
(***************************************************************************)
(* music-video-gen: the submission service (api/generate.js), the status   *)
(* reconciler (api/status.js), the output retriever (api/download.js) and  *)
(* the browser client (frontend/app.js), with the remote platform as the   *)
(* environment.                                                            *)
(*                                                                         *)
(* Specifications:                                                         *)
(*   Spec          the submission service against the remote slots         *)
(*   FormSpec      one submission over every form it may carry             *)
(*   StatusSpec    the status handler over every platform answer           *)
(*   DownloadSpec  the download handler over every platform answer         *)
(*   EngineSpec    the kernel's segmentation and prompt chaining           *)
(*   PromptSpec    two runs of the prompt chaining over the same segments  *)
(*   SourceSpec    the kernel source built around a supplied value         *)
(*   PollSpec      the browser client: submit, poll, show, reset           *)
(*   PollFairSpec  one job of the client, the user not resetting, with     *)
(*                 timers firing and requests completing                   *)
(***************************************************************************)
EXTENDS Integers, Sequences, FiniteSets, TLC

\* ------------------------------------------------------------------ bounds

\* Number of handler invocations of /api/generate (they may overlap).
NumReq == 2

\* Number of times the client starts a generation.
MaxSubmits == 1

\* Number of status requests of the client that may be in flight at once.
MaxInflight == 2

Reqs == 1..NumReq

\* Entries of the output listing.
MaxFiles == 2

\* Transcripts of the exhaustive inputs: timestamps 0..MaxTime, at most
\* MaxSpans spans, at most MaxBeats beats, clip durations 1..MaxClip.
MaxTime == 4

MaxSpans == 2

MaxBeats == 1

MaxClip == 2

\* Segment lists of the exhaustive inputs of the prompt chaining.
MaxSegs == 4

\* Characters of a supplied title, style or file name.
MaxChars == 3

\* ------------------------------------------------------- program constants

\* generate.js:15, generate.js:16
KERNEL_SLUG == "music-video-pipeline"
DATASET_SLUG == "music-video-input"

\* parseInt(..., 10) of generate.js:30
Radix == 10

VARIABLES
    \* --- /api/generate handler invocations (generate.js:21-66)
    pc,          \* position of each invocation
    input,       \* the parsed form of each invocation
    loc,         \* locals of each invocation: datasetExists, token, ...
    http,        \* HTTP status each invocation answered with (0: none yet)
    hist,        \* what the platform answered to each invocation (observation)
    \* --- the remote platform
    dataset,     \* slug -> [version, content] of the datasets that exist
    uploaded,    \* upload tickets whose bytes arrived
    kernel,      \* slug -> [version, clip, by] of the kernels that exist
    \* --- /api/status handler (status.js:25-61)
    statusIn,    \* the request and what the platform answers to the status read
    statusOut,   \* the handler's HTTP response
    \* --- /api/download handler (download.js:13-43)
    downloadIn,  \* the request and what the platform answers to its reads
    downloadOut, \* the handler's HTTP response
    \* --- the kernel: segmentation and prompt chaining (generate.js:179-226)
    segments,       \* the transcript spans: start, end, text
    beat_times,     \* the beat timestamps
    rms,            \* the energy curve: sample time -> amplitude
    CLIP_DURATION,  \* the target clip duration
    VISUAL_STYLE,   \* the style string
    phase,          \* where the kernel stands: idle, scan, prompts
    cursor,         \* position of the scan in segments
    current_start,  \* start of the segment being accumulated
    current_text,   \* texts accumulated for it
    video_segments, \* the segments emitted so far
    stream,         \* what the generator seeded with 42 has put out so far
    chain,          \* per run of the prompt chaining: its outcome
    \* --- the kernel source (generate.js:146-160)
    param,          \* the parameter that is embedded
    supplied,       \* the value the user supplied for it
    source,         \* the source line built for it, from the opening quote
    literal,        \* how Python read the literal
    \* --- the browser client (app.js)
    selectedFile,  \* a file is selected (app.js:10)
    pollTimer,     \* the interval handle, 0 for null (app.js:11)
    timers,        \* the interval handles that are active
    timerSeq,      \* how many intervals were created
    panel,         \* which panels are displayed
    dom,           \* the error text, the progress bar, the stage indicator
    gens,          \* /api/generate requests in flight
    submits,       \* generations started so far
    poll,          \* the /api/status requests in flight
    kstate         \* the state of the kernel on the platform

submitVars == <<pc, input, loc, http, hist, dataset, uploaded, kernel>>

statusVars == <<statusIn, statusOut>>

downloadVars == <<downloadIn, downloadOut>>

engineVars == <<segments, beat_times, rms, CLIP_DURATION, VISUAL_STYLE, phase,
                cursor, current_start, current_text, video_segments, stream,
                chain>>

sourceVars == <<param, supplied, source, literal>>

clientVars == <<selectedFile, pollTimer, timers, timerSeq, panel, dom, gens,
                submits, poll, kstate>>

vars == <<submitVars, statusVars, downloadVars, engineVars, sourceVars,
         clientVars>>

\* ------------------------------------------------------------ parseInt

\* A JavaScript number as parseInt gives it: an integer, or NaN.
NaN == [nan |-> TRUE, val |-> 0]

Num(n) == [nan |-> FALSE, val |-> n]

Digits == <<"0", "1", "2", "3", "4", "5", "6", "7", "8", "9">>

IsDigit(c) == \E i \in 1..Radix : Digits[i] = c

DigitVal(c) == (CHOOSE i \in 1..Radix : Digits[i] = c) - 1

RECURSIVE SkipSpace(_)
SkipSpace(s) ==
    IF s # <<>> /\ Head(s) = " " THEN SkipSpace(Tail(s)) ELSE s

\* The value of the longest prefix of digits of s, given the value so far.
RECURSIVE DigitsValue(_, _)
DigitsValue(s, acc) ==
    IF s # <<>> /\ IsDigit(Head(s))
    THEN DigitsValue(Tail(s), acc * Radix + DigitVal(Head(s)))
    ELSE acc

\* JavaScript parseInt(s, 10): leading blanks, an optional sign, then the
\* longest run of digits; NaN when there is no digit.
parseInt(s) ==
    LET t == SkipSpace(s)
        neg == t # <<>> /\ Head(t) = "-"
        u == IF t # <<>> /\ Head(t) \in {"-", "+"} THEN Tail(t) ELSE t
    IN  IF u = <<>> \/ ~IsDigit(Head(u)) THEN NaN
        ELSE IF neg THEN Num(0 - DigitsValue(u, 0)) ELSE Num(DigitsValue(u, 0))

\* generate.js:30: parseInt(fields.clipDuration || '5', 10); an absent or
\* empty field is falsy.
DefaultClip == <<"5">>

clipDurationOf(raw) == parseInt(IF raw = <<>> THEN DefaultClip ELSE raw)

\* The clip-duration fields a form may carry.
ClipFields ==
    {<<>>, <<"5">>, <<"0">>, <<"-", "3">>, <<"x">>}

PositiveInt(v) == ~v.nan /\ v.val > 0

\* ------------------------------------------------------ the remote platform

\* What a remote request can end in: a success response, a non-success
\* response, or no response at all (fetch rejects).
Outcomes == {"ok", "fail", "neterr"}

\* The three remote steps of a slot push.
Steps == {"ticket", "upload", "final"}

NoSlots == [s \in {} |-> 0]

DatasetPresent == DATASET_SLUG \in DOMAIN dataset

KernelPresent == KERNEL_SLUG \in DOMAIN kernel

VersionOf(slots, slug) == IF slug \in DOMAIN slots THEN slots[slug].version ELSE 0

\* The platform finalizes a create only for a free slug and a new version
\* only for an existing one, and either only once the ticket's bytes arrived.
CanFinalize(path, token) ==
    /\ token \in uploaded
    /\ IF path = "create" THEN ~DatasetPresent ELSE DatasetPresent

\* ------------------------------------------------------- /api/generate

NoInput == [method |-> "", parsed |-> FALSE, hasAudio |-> FALSE, clip |-> <<>>]

NoLoc == [datasetExists |-> FALSE, token |-> 0, kernelExists |-> FALSE]

\* What is observed of an invocation: the remote requests it issued, the
\* slot path it took, the slot steps answered with a non-success response,
\* the versions its pushes created, what the platform answered to its
\* job-definition push, and what it found when it started.
NoHist == [calls |-> 0, path |-> "none", failed |-> {}, slotDone |-> FALSE,
           ver |-> 0, kver |-> 0, kpush |-> "none", after |-> {},
           absent |-> FALSE]

\* The catch of generate.js:62-65.
Throw(r) ==
    /\ pc' = [pc EXCEPT ![r] = "done"]
    /\ http' = [http EXCEPT ![r] = 500]
    /\ loc' = [loc EXCEPT ![r] = NoLoc]

\* One more remote request issued by r.
Called(r) == [hist[r] EXCEPT !.calls = @ + 1]

\* One more remote request issued by r, a slot step answered with o.
Answered(r, step, o) ==
    IF o = "fail" THEN [Called(r) EXCEPT !.failed = @ \cup {step}] ELSE Called(r)

\* generate.js:32 left out: a missing file then fails at audioFile.filepath.
HandlerEntryNoAudioCheck(r, fields) ==
    /\ pc[r] = "idle"
    /\ \E method \in {"POST", "GET"}, parsed \in BOOLEAN, hasAudio \in BOOLEAN,
          clip \in fields :
        /\ method = "GET" => ~parsed /\ ~hasAudio /\ clip = <<>>
        /\ ~parsed => ~hasAudio /\ clip = <<>>
        /\ input' = [input EXCEPT ![r] =
                        [method |-> method, parsed |-> parsed,
                         hasAudio |-> hasAudio, clip |-> clip]]
        /\ hist' = [hist EXCEPT ![r] =
                        [@ EXCEPT !.after = {q \in Reqs : pc[q] = "done"},
                                  !.absent = ~DatasetPresent]]
        /\ IF method # "POST"
           THEN /\ pc' = [pc EXCEPT ![r] = "done"]
                /\ http' = [http EXCEPT ![r] = 405]
                /\ UNCHANGED loc
           ELSE IF ~parsed \/ ~hasAudio
           THEN Throw(r)
           ELSE pc' = [pc EXCEPT ![r] = "checkDataset"] /\ UNCHANGED <<http, loc>>
    /\ UNCHANGED <<dataset, uploaded, kernel, statusVars, downloadVars, engineVars, sourceVars, clientVars>>

\* generate.js:22-35: the method check, parseForm, the field defaults and the
\* missing-audio check. No remote request is made here.
HandlerEntry(r, fields) ==
    /\ pc[r] = "idle"
    /\ \E method \in {"POST", "GET"}, parsed \in BOOLEAN, hasAudio \in BOOLEAN,
          clip \in fields :
        /\ method = "GET" => ~parsed /\ ~hasAudio /\ clip = <<>>
        /\ ~parsed => ~hasAudio /\ clip = <<>>
        /\ input' = [input EXCEPT ![r] =
                        [method |-> method, parsed |-> parsed,
                         hasAudio |-> hasAudio, clip |-> clip]]
        /\ hist' = [hist EXCEPT ![r] =
                        [@ EXCEPT !.after = {q \in Reqs : pc[q] = "done"},
                                  !.absent = ~DatasetPresent]]
        /\ IF method # "POST"
           THEN /\ pc' = [pc EXCEPT ![r] = "done"]
                /\ http' = [http EXCEPT ![r] = 405]
                /\ UNCHANGED loc
           ELSE IF ~parsed
           THEN Throw(r)
           ELSE IF ~hasAudio
           THEN /\ pc' = [pc EXCEPT ![r] = "done"]
                /\ http' = [http EXCEPT ![r] = 400]
                /\ UNCHANGED loc
           ELSE pc' = [pc EXCEPT ![r] = "checkDataset"] /\ UNCHANGED <<http, loc>>
    /\ UNCHANGED <<dataset, uploaded, kernel, statusVars, downloadVars, engineVars, sourceVars, clientVars>>

\* generate.js:80-86 and 38-43: one GET; anything but a 200 counts as absent.
checkDatasetExists(r) ==
    /\ pc[r] = "checkDataset"
    /\ \E o \in Outcomes :
        /\ o = "ok" => DatasetPresent
        /\ IF o = "neterr"
           THEN Throw(r) /\ hist' = [hist EXCEPT ![r] = Called(r)]
           ELSE /\ pc' = [pc EXCEPT ![r] = "ticket"]
                /\ loc' = [loc EXCEPT ![r].datasetExists = (o = "ok")]
                /\ hist' = [hist EXCEPT ![r] =
                              [Called(r) EXCEPT
                                  !.path = IF o = "ok" THEN "revise" ELSE "create"]]
                /\ UNCHANGED http
    /\ UNCHANGED <<input, dataset, uploaded, kernel, statusVars, downloadVars, engineVars, sourceVars, clientVars>>

\* generate.js:90-95 and 122-127: the upload ticket. A non-success answer
\* carries no createUrl, so initRes.json() or the fetch of an undefined URL
\* throws.
requestTicket(r) ==
    /\ pc[r] = "ticket"
    /\ \E o \in Outcomes :
        /\ hist' = [hist EXCEPT ![r] = Answered(r, "ticket", o)]
        /\ IF o = "ok"
           THEN /\ pc' = [pc EXCEPT ![r] = "upload"]
                /\ loc' = [loc EXCEPT ![r].token = r]
                /\ UNCHANGED http
           ELSE Throw(r)
    /\ UNCHANGED <<input, dataset, uploaded, kernel, statusVars, downloadVars, engineVars, sourceVars, clientVars>>

\* generate.js:98-103 and 128-129: the PUT of the bytes; its response is
\* not looked at.
uploadBytes(r) ==
    /\ pc[r] = "upload"
    /\ \E o \in Outcomes :
        /\ hist' = [hist EXCEPT ![r] = Answered(r, "upload", o)]
        /\ uploaded' = IF o = "ok" THEN uploaded \cup {loc[r].token} ELSE uploaded
        /\ IF o = "neterr"
           THEN Throw(r)
           ELSE pc' = [pc EXCEPT ![r] = "final"] /\ UNCHANGED <<http, loc>>
    /\ UNCHANGED <<input, dataset, kernel, statusVars, downloadVars, engineVars, sourceVars, clientVars>>

\* generate.js:106-117 (create) and 131-135 (new version): the finalize
\* request; its response is not looked at.
finalizeDataset(r) ==
    /\ pc[r] = "final"
    /\ \E o \in Outcomes :
        /\ o = "ok" => CanFinalize(IF loc[r].datasetExists THEN "revise" ELSE "create",
                                   loc[r].token)
        /\ hist' = [hist EXCEPT ![r] =
                      [Answered(r, "final", o) EXCEPT
                          !.slotDone = (o # "neterr"),
                          !.ver = IF o = "ok"
                                  THEN VersionOf(dataset, DATASET_SLUG) + 1 ELSE 0]]
        /\ dataset' = IF o = "ok"
                      THEN (DATASET_SLUG :>
                              [version |-> VersionOf(dataset, DATASET_SLUG) + 1,
                               content |-> r]) @@ dataset
                      ELSE dataset
        /\ IF o = "neterr"
           THEN Throw(r)
           ELSE pc' = [pc EXCEPT ![r] = "checkKernel"] /\ UNCHANGED <<http, loc>>
    /\ UNCHANGED <<input, uploaded, kernel, statusVars, downloadVars, engineVars, sourceVars, clientVars>>

\* generate.js:138-144 and 46-51.
checkKernelExists(r) ==
    /\ pc[r] = "checkKernel"
    /\ \E o \in Outcomes :
        /\ o = "ok" => KernelPresent
        /\ hist' = [hist EXCEPT ![r] = Called(r)]
        /\ IF o = "neterr"
           THEN Throw(r)
           ELSE /\ pc' = [pc EXCEPT ![r] = "push"]
                /\ loc' = [loc EXCEPT ![r].kernelExists = (o = "ok")]
                /\ UNCHANGED http
    /\ UNCHANGED <<input, dataset, uploaded, kernel, statusVars, downloadVars, engineVars, sourceVars, clientVars>>

\* generate.js:280-303 and 53-60: the job definition is built from the
\* parsed clip duration and pushed; the response is not looked at, and the
\* handler answers 200 with the job handle.
createKaggleKernel(r) ==
    /\ pc[r] = "push"
    /\ \E o \in Outcomes :
        /\ hist' = [hist EXCEPT ![r] =
                      [Called(r) EXCEPT
                          !.kpush = o,
                          !.kver = IF o = "ok"
                                   THEN VersionOf(kernel, KERNEL_SLUG) + 1 ELSE 0]]
        /\ kernel' = IF o = "ok"
                     THEN (KERNEL_SLUG :>
                             [version |-> VersionOf(kernel, KERNEL_SLUG) + 1,
                              clip |-> clipDurationOf(input[r].clip),
                              by |-> r]) @@ kernel
                     ELSE kernel
        /\ IF o = "neterr"
           THEN Throw(r)
           ELSE /\ pc' = [pc EXCEPT ![r] = "done"]
                /\ http' = [http EXCEPT ![r] = 200]
                /\ loc' = [loc EXCEPT ![r] = NoLoc]
    /\ UNCHANGED <<input, dataset, uploaded, statusVars, downloadVars, engineVars, sourceVars, clientVars>>

\* ---------------------------------------------------------- /api/status

\* JavaScript null / undefined, and a property that is not there.
Null == "null"

Absent == "absent"

\* A falsy string of JavaScript, as `x ? .. : ..` and `x || ..` see it.
Falsy(x) == x \in {Null, Absent, ""}

\* status.js:41 and 54
OutputUrl == "https://www.kaggle.com/code/zackrandall/music-video-pipeline/output"

KernelUrl == "https://www.kaggle.com/code/zackrandall/music-video-pipeline"

\* status.js:18 with the downloadUrl left out.
mapStatusNoUrl(kaggleStatus, outputUrl) ==
    CASE kaggleStatus = "queued" ->
            [uiStage |-> "analysis", progress |-> 5, running |-> TRUE,
             done |-> FALSE, error |-> FALSE, downloadUrl |-> Absent]
      [] kaggleStatus = "running" ->
            [uiStage |-> "clips", progress |-> 50, running |-> TRUE,
             done |-> FALSE, error |-> FALSE, downloadUrl |-> Absent]
      [] kaggleStatus = "complete" ->
            [uiStage |-> "done", progress |-> 100, running |-> FALSE,
             done |-> TRUE, error |-> FALSE, downloadUrl |-> Absent]
      [] kaggleStatus = "error" ->
            [uiStage |-> "error", progress |-> 0, running |-> FALSE,
             done |-> FALSE, error |-> TRUE, downloadUrl |-> Absent]
      [] kaggleStatus = "cancelled" ->
            [uiStage |-> "cancelled", progress |-> 0, running |-> FALSE,
             done |-> FALSE, error |-> TRUE, downloadUrl |-> Absent]
      [] OTHER ->
            [uiStage |-> "queued", progress |-> 2, running |-> TRUE,
             done |-> FALSE, error |-> FALSE, downloadUrl |-> Absent]

\* status.js:14-23
mapStatus(kaggleStatus, outputUrl) ==
    CASE kaggleStatus = "queued" ->
            [uiStage |-> "analysis", progress |-> 5, running |-> TRUE,
             done |-> FALSE, error |-> FALSE, downloadUrl |-> Absent]
      [] kaggleStatus = "running" ->
            [uiStage |-> "clips", progress |-> 50, running |-> TRUE,
             done |-> FALSE, error |-> FALSE, downloadUrl |-> Absent]
      [] kaggleStatus = "complete" ->
            [uiStage |-> "done", progress |-> 100, running |-> FALSE,
             done |-> TRUE, error |-> FALSE, downloadUrl |-> outputUrl]
      [] kaggleStatus = "error" ->
            [uiStage |-> "error", progress |-> 0, running |-> FALSE,
             done |-> FALSE, error |-> TRUE, downloadUrl |-> Absent]
      [] kaggleStatus = "cancelled" ->
            [uiStage |-> "cancelled", progress |-> 0, running |-> FALSE,
             done |-> FALSE, error |-> TRUE, downloadUrl |-> Absent]
      [] OTHER ->
            [uiStage |-> "queued", progress |-> 2, running |-> TRUE,
             done |-> FALSE, error |-> FALSE, downloadUrl |-> Absent]

\* The states the platform reports that the table of status.js:14-23 names,
\* and two it does not: another state name, and no status property at all.
TableStates == {"queued", "running", "complete", "error", "cancelled"}

PlatformStates == TableStates \cup {"cancelAcknowledged", Null}

\* What the status read of status.js:29-32 can end in: fetch rejects
\* ("neterr"), a non-success response, a success response whose body is no
\* JSON ("badjson"), or a success response with the status document.
StatusDoc(status, failureMessage, startTime, completionTime) ==
    [kind |-> "ok", code |-> 200, status |-> status,
     failureMessage |-> failureMessage,
     startTime |-> startTime, completionTime |-> completionTime]

StatusFailure(kind, code) ==
    [kind |-> kind, code |-> code, status |-> Null, failureMessage |-> Null,
     startTime |-> Null, completionTime |-> Null]

PlatformAnswers ==
    {StatusDoc(st, fm, t0, t1) :
        st \in PlatformStates, fm \in {Null, "", "out of memory"},
        t0 \in {Null, "t0"}, t1 \in {Null, "t1"}}
    \cup {StatusFailure("fail", c) : c \in {404, 429, 500}}
    \cup {StatusFailure("neterr", 0), StatusFailure("badjson", 200)}

\* The body of an error response: { error: text }.
ErrorBody(text) == [tag |-> "error", error |-> text]

\* status.js:25-61: the handler's HTTP response to a request with `method`
\* when the platform answers the status read with `ans`.
StatusHandler(method, ans) ==
    IF method # "GET"
    THEN [code |-> 405, body |-> ErrorBody("Method not allowed")]
    ELSE IF ans.kind \in {"neterr", "badjson"}
    THEN [code |-> 500, body |-> ErrorBody("err.message")]
    ELSE IF ans.kind = "fail"
    THEN [code |-> ans.code, body |-> ErrorBody("Kaggle API error: text")]
    ELSE LET outputUrl == IF ~Falsy(ans.failureMessage) THEN Null ELSE OutputUrl
             errorMsg == IF Falsy(ans.failureMessage) THEN Null
                         ELSE ans.failureMessage
             mapped == mapStatus(ans.status, outputUrl)
         IN  [code |-> 200,
              body |-> [tag |-> "snapshot",
                        kaggleStatus |-> ans.status,
                        uiStage |-> mapped.uiStage,
                        progress |-> mapped.progress,
                        running |-> mapped.running,
                        done |-> mapped.done,
                        error |-> mapped.error,
                        downloadUrl |-> mapped.downloadUrl,
                        errorMessage |-> errorMsg,
                        startedAt |-> ans.startTime,
                        finishedAt |-> ans.completionTime,
                        kernelUrl |-> KernelUrl]]

NoResponse == [code |-> 0, body |-> ErrorBody("")]

\* No status request under way.
IdleStatus ==
    /\ statusIn = [method |-> "GET", ans |-> StatusFailure("neterr", 0)]
    /\ statusOut = NoResponse

\* One run of the handler.
StatusRequest ==
    /\ statusOut = NoResponse
    /\ statusOut' = StatusHandler(statusIn.method, statusIn.ans)
    /\ UNCHANGED <<statusIn, submitVars, downloadVars, engineVars, sourceVars, clientVars>>

\* -------------------------------------------------------- /api/download

\* A file name is the sequence of its parts; '_music_video.mp4' (download.js:26).
ARTIFACT_SUFFIX == <<"_music_video", ".mp4">>

\* String.prototype.endsWith.
endsWith(str, suffix) ==
    /\ Len(str) >= Len(suffix)
    /\ SubSeq(str, Len(str) - Len(suffix) + 1, Len(str)) = suffix

FileNames ==
    { <<"song", "_music_video", ".mp4">>,
      <<"_music_video", ".mp4">>,
      <<"song", "_music_video", ".mp4", ".part">>,
      <<"clip_000", ".mp4">>,
      <<>> }

\* The entries of listData.files: null, an object without fileName, or a
\* file with its name and url.
NullEntry == [null |-> TRUE, hasName |-> FALSE, fileName |-> <<>>, url |-> ""]

NamelessEntry ==
    [null |-> FALSE, hasName |-> FALSE, fileName |-> <<>>, url |-> "url"]

FileEntry(name) ==
    [null |-> FALSE, hasName |-> TRUE, fileName |-> name, url |-> "url"]

Entries == {NullEntry, NamelessEntry} \cup {FileEntry(n) : n \in FileNames}

Listings == UNION {[1..n -> Entries] : n \in 0..MaxFiles}

\* What the platform answers to the listing read (download.js:18-21): the
\* fetch is rejected, or a status code with a body that is not JSON, the JSON
\* null, or a JSON object with or without `files`. The handler reads no
\* status code.
ListAnswer(kind, code, hasFiles, files) ==
    [kind |-> kind, code |-> code, hasFiles |-> hasFiles, files |-> files]

ListAnswers ==
    {ListAnswer("neterr", 0, FALSE, <<>>)}
    \cup {ListAnswer("text", c, FALSE, <<>>) : c \in {200, 404, 502}}
    \cup {ListAnswer(k, c, FALSE, <<>>) :
              k \in {"null", "object"}, c \in {200, 401}}
    \cup {ListAnswer("object", c, TRUE, l) : c \in {200, 401}, l \in Listings}

\* What the platform answers to the read of the file (download.js:32).
FileAnswers ==
    {[kind |-> "neterr", code |-> 0, length |-> Absent],
     [kind |-> "ok", code |-> 200, length |-> "1024"],
     [kind |-> "ok", code |-> 200, length |-> Absent],
     [kind |-> "ok", code |-> 404, length |-> Absent]}

\* f.fileName as it goes into the 404 body: undefined, or the name.
NameOf(f) == [has |-> f.hasName, name |-> f.fileName]

NoHeaders == [contentType |-> Absent, filename |-> <<>>, contentLength |-> Absent]

DownloadError(code, msg) ==
    [code |-> code, tag |-> "error", error |-> msg, files |-> <<>>,
     headers |-> NoHeaders]

\* download.js:26: files.find(f => f.fileName && f.fileName.endsWith(...)),
\* from entry i on: 0 when no entry matches, -1 when the callback throws on
\* a null entry, else the index of the first match.
RECURSIVE find(_, _)
find(files, i) ==
    IF i > Len(files) THEN 0
    ELSE IF files[i].null THEN -1
    ELSE IF /\ files[i].hasName
            /\ files[i].fileName # <<>>
            /\ endsWith(files[i].fileName, ARTIFACT_SUFFIX)
    THEN i
    ELSE find(files, i + 1)

\* download.js:13-43: the handler's HTTP response to a request with `method`
\* when the platform answers the listing read with `list` and the file read
\* with `file`.
DownloadHandler(method, list, file) ==
    IF method # "GET" THEN DownloadError(405, "Method not allowed")
    ELSE IF list.kind \in {"neterr", "text", "null"}
    THEN DownloadError(500, "err.message")
    ELSE LET files == IF list.hasFiles THEN list.files ELSE <<>>
             mp4 == find(files, 1)
         IN  IF mp4 = -1 THEN DownloadError(500, "err.message")
             ELSE IF mp4 = 0
             THEN [code |-> 404, tag |-> "notReady",
                   error |-> "Video not found in output yet",
                   files |-> [i \in 1..Len(files) |-> NameOf(files[i])],
                   headers |-> NoHeaders]
             ELSE IF file.kind = "neterr"
             THEN DownloadError(500, "err.message")
             ELSE [code |-> 200, tag |-> "stream", error |-> "",
                   files |-> <<>>,
                   headers |-> [contentType |-> "video/mp4",
                                filename |-> files[mp4].fileName,
                                contentLength |-> file.length]]

NoDownload == DownloadError(0, "")

\* No download request under way.
IdleDownload ==
    /\ downloadIn = [method |-> "GET",
                     list |-> ListAnswer("neterr", 0, FALSE, <<>>),
                     file |-> [kind |-> "neterr", code |-> 0,
                               length |-> Absent]]
    /\ downloadOut = NoDownload

\* One run of the handler.
DownloadRequest ==
    /\ downloadOut = NoDownload
    /\ downloadOut' =
           DownloadHandler(downloadIn.method, downloadIn.list, downloadIn.file)
    /\ UNCHANGED <<downloadIn, submitVars, statusVars, engineVars, sourceVars, clientVars>>

\* ------------------------------------- the kernel: segmentation (190-209)

Times == 0..MaxTime

\* Energies are exact fractions n/d, d > 0, kept in lowest terms; the source
\* computes them in floating point.
RECURSIVE GCD(_, _)
GCD(a, b) == IF b = 0 THEN a ELSE GCD(b, a % b)

Abs(x) == IF x < 0 THEN -x ELSE x

Rat(n, d) ==
    LET g == GCD(Abs(n), d) IN [n |-> n \div g, d |-> d \div g]

\* a < b for fractions that are not negative, by whole parts and then by the
\* reciprocals of the remainders, so that no product leaves the integers
\* of the checker.
RECURSIVE RatLess(_, _)
RatLess(a, b) ==
    LET qa == a.n \div a.d
        qb == b.n \div b.d
        ra == a.n % a.d
        rb == b.n % b.d
    IN  IF qa # qb THEN qa < qb
        ELSE IF rb = 0 THEN FALSE
        ELSE IF ra = 0 THEN TRUE
        ELSE RatLess([n |-> b.d, d |-> rb], [n |-> a.d, d |-> ra])

RatAdd(a, b) == Rat(a.n * b.d + b.n * a.d, a.d * b.d)

RatSub(a, b) == Rat(a.n * b.d - b.n * a.d, a.d * b.d)

\* a / b for b > 0.
RatDiv(a, b) == Rat(a.n * b.d, a.d * b.n)

\* Amplitudes and energies are counted in steps, Unit steps to 1.0.
Unit == 1000

\* The default energy 0.5 of a window without samples (generate.js:196, 207).
DEFAULT_ENERGY == Rat(Unit \div 2, 1)

RECURSIVE SumOver(_, _)
SumOver(f, S) ==
    IF S = {} THEN 0
    ELSE LET t == CHOOSE x \in S : TRUE IN f[t] + SumOver(f, S \ {t})

\* generate.js:195-196 and 204, 207: float(np.mean(rms[mask])) if mask.any()
\* else 0.5, the mask half-open [from, to) or closed [from, to].
energyOf(from, to, closed) ==
    LET mask == {t \in DOMAIN rms :
                    from <= t /\ (IF closed THEN t <= to ELSE t < to)}
    IN  IF mask # {} THEN Rat(SumOver(rms, mask), Cardinality(mask))
        ELSE DEFAULT_ENERGY

\* generate.js:199 and 208: sum(1 for b in beat_times if ...).
beatCount(from, to, closed) ==
    Cardinality({b \in beat_times :
                    from <= b /\ (IF closed THEN b <= to ELSE b < to)})

\* The entry appended to video_segments.
VideoSegment(from, to, closed) ==
    [start |-> from, end |-> to, lyrics |-> current_text,
     energy |-> energyOf(from, to, closed),
     beat_count |-> beatCount(from, to, closed)]

\* generate.js:193-201 with the reset of current_start to the end of the
\* span instead of its start.
scanSegmentFromEnd ==
    /\ phase = "scan"
    /\ cursor <= Len(segments)
    /\ LET seg == segments[cursor]
       IN  IF seg.end - current_start >= CLIP_DURATION /\ current_text # <<>>
           THEN /\ video_segments' =
                      Append(video_segments,
                             VideoSegment(current_start, seg.start, FALSE))
                /\ current_start' = seg.end
                /\ current_text' = <<seg.text>>
           ELSE /\ current_text' = Append(current_text, seg.text)
                /\ UNCHANGED <<video_segments, current_start>>
    /\ cursor' = cursor + 1
    /\ UNCHANGED <<segments, beat_times, rms, CLIP_DURATION, VISUAL_STYLE, phase,
                   stream, chain>>
    /\ UNCHANGED <<submitVars, statusVars, downloadVars, sourceVars, clientVars>>

\* generate.js:193-201 closing a segment at every span that has text before
\* it, whatever the elapsed time.
scanSegmentNoDuration ==
    /\ phase = "scan"
    /\ cursor <= Len(segments)
    /\ LET seg == segments[cursor]
       IN  IF current_text # <<>>
           THEN /\ video_segments' =
                      Append(video_segments,
                             VideoSegment(current_start, seg.start, FALSE))
                /\ current_start' = seg.start
                /\ current_text' = <<seg.text>>
           ELSE /\ current_text' = Append(current_text, seg.text)
                /\ UNCHANGED <<video_segments, current_start>>
    /\ cursor' = cursor + 1
    /\ UNCHANGED <<segments, beat_times, rms, CLIP_DURATION, VISUAL_STYLE, phase,
                   stream, chain>>
    /\ UNCHANGED <<submitVars, statusVars, downloadVars, sourceVars, clientVars>>

\* generate.js:193-201: one iteration of `for seg in segments`.
scanSegment ==
    /\ phase = "scan"
    /\ cursor <= Len(segments)
    /\ LET seg == segments[cursor]
       IN  IF seg.end - current_start >= CLIP_DURATION /\ current_text # <<>>
           THEN /\ video_segments' =
                      Append(video_segments,
                             VideoSegment(current_start, seg.start, FALSE))
                /\ current_start' = seg.start
                /\ current_text' = <<seg.text>>
           ELSE /\ current_text' = Append(current_text, seg.text)
                /\ UNCHANGED <<video_segments, current_start>>
    /\ cursor' = cursor + 1
    /\ UNCHANGED <<segments, beat_times, rms, CLIP_DURATION, VISUAL_STYLE, phase,
                   stream, chain>>
    /\ UNCHANGED <<submitVars, statusVars, downloadVars, sourceVars, clientVars>>

\* The end of the last span, 0 without spans (generate.js:203).
lastEnd == IF segments # <<>> THEN segments[Len(segments)].end ELSE 0

\* generate.js:202-208 with the half-open window of the scan for the final
\* segment.
finishScanHalfOpen ==
    /\ phase = "scan"
    /\ cursor > Len(segments)
    /\ video_segments' =
          IF current_text # <<>>
          THEN Append(video_segments, VideoSegment(current_start, lastEnd, FALSE))
          ELSE video_segments
    /\ phase' = "prompts"
    /\ UNCHANGED <<segments, beat_times, rms, CLIP_DURATION, VISUAL_STYLE, cursor,
                   current_start, current_text, stream, chain>>
    /\ UNCHANGED <<submitVars, statusVars, downloadVars, sourceVars, clientVars>>

\* generate.js:202-208: after the loop, the final segment.
finishScan ==
    /\ phase = "scan"
    /\ cursor > Len(segments)
    /\ video_segments' =
          IF current_text # <<>>
          THEN Append(video_segments, VideoSegment(current_start, lastEnd, TRUE))
          ELSE video_segments
    /\ phase' = "prompts"
    /\ UNCHANGED <<segments, beat_times, rms, CLIP_DURATION, VISUAL_STYLE, cursor,
                   current_start, current_text, stream, chain>>
    /\ UNCHANGED <<submitVars, statusVars, downloadVars, sourceVars, clientVars>>

\* --------------------------------- the kernel: prompt chaining (211-226)

\* generate.js:213
MOOD ==
    [high |-> "dramatic wide shot, bold colors, dynamic movement",
     mid |-> "medium shot, warm tones, gentle motion",
     low |-> "intimate close-up, soft bokeh, slow motion"]

\* generate.js:214
ANCHORS ==
    <<"golden wheat fields at sunset", "downtown city streets at night",
      "coastal cliffs with crashing waves", "mountain forest trail in mist",
      "open desert highway at dusk">>

\* generate.js:223: 1e-9, a millionth of a step.
EPSILON == Rat(1, Unit * Unit)

\* generate.js:225: seg['lyrics'][:80]; the text of a span counts as one
\* character.
EXCERPT_LEN == 80

Take(str, n) == SubSeq(str, 1, IF Len(str) < n THEN Len(str) ELSE n)

\* generate.js:217: max(3, len(video_segments) // len(ANCHORS))
interval(n) ==
    LET q == n \div Len(ANCHORS) IN IF q > 3 THEN q ELSE 3

\* generate.js:222 with the current anchor left among the candidates.
candidatesAll(anchor) == ANCHORS

\* generate.js:222: [a for a in ANCHORS if a != anchor] or ANCHORS
candidates(anchor) ==
    LET others == SelectSeq(ANCHORS, LAMBDA a : a # anchor)
    IN  IF others # <<>> THEN others ELSE ANCHORS

\* random.choice(population) when the generator puts out r.
choice(population, r) == population[(r % Len(population)) + 1]

\* The calls of random.choice in a run over n segments.
draws(n) == 1 + (IF n = 0 THEN 0 ELSE (n - 1) \div interval(n))

\* What the generator can put out in d calls: an index into the five
\* anchors, then indexes into the four others.
Streams(d) ==
    {[j \in 1..d |-> IF j = 1 THEN first ELSE rest[j]] :
        first \in 0..(Len(ANCHORS) - 1),
        rest \in [2..d -> 0..(Len(ANCHORS) - 2)]}

\* A generator that is not seeded: nothing of its output is known.
unseeded(run) == <<>>

\* generate.js:215: random.seed(42): every run sees the same output.
seeded(run) == stream

\* generate.js:223 without the epsilon.
normaliseNoEpsilon(e, emin, emax) ==
    IF emax = emin THEN Rat(0, 1)
    ELSE RatDiv(RatSub(e, emin), RatSub(emax, emin))

\* generate.js:223: (seg['energy'] - emin) / (emax - emin + 1e-9)
normalise(e, emin, emax) ==
    RatDiv(RatSub(e, emin), RatAdd(RatSub(emax, emin), EPSILON))

\* generate.js:224
moodOf(ne) ==
    IF RatLess(Rat(66, 100), ne) THEN "high"
    ELSE IF RatLess(Rat(33, 100), ne) THEN "mid"
    ELSE "low"

\* generate.js:220-222: the anchors of the segments i..n-1 (i counted from
\* 0), `anchor` the one of segment i-1, `used` calls of random.choice made.
RECURSIVE anchorsFrom(_, _, _, _, _)
anchorsFrom(i, n, anchor, used, s) ==
    IF i >= n THEN <<>>
    ELSE LET switch == i > 0 /\ i % interval(n) = 0
             a == IF switch THEN choice(candidates(anchor), s[used + 1])
                  ELSE anchor
         IN  <<a>> \o anchorsFrom(i + 1, n, a,
                                  IF switch THEN used + 1 ELSE used, s)

NoChain == [status |-> "none", prompts |-> <<>>, norm |-> <<>>]

Runs == 1..2

\* generate.js:218 and 223: the normalised energy of every segment;
\* min() of an empty list raises ValueError.
normOf(segs) ==
    LET al == {segs[k].energy : k \in 1..Len(segs)}
        emin == CHOOSE x \in al : \A y \in al : ~RatLess(y, x)
        emax == CHOOSE x \in al : \A y \in al : ~RatLess(x, y)
    IN  [k \in 1..Len(segs) |-> normalise(segs[k].energy, emin, emax)]

\* generate.js:216-225: what a run in which the generator puts out s ends
\* with: the prompts, and the normalised energies `norm` it computed on the
\* way.
chainOf(s, norm) ==
    LET n == Len(video_segments)
        anchors == anchorsFrom(0, n, choice(ANCHORS, s[1]), 1, s)
    IN  IF n = 0
        THEN [status |-> "ValueError", prompts |-> <<>>, norm |-> <<>>]
        ELSE [status |-> "ok",
              prompts |->
                 [k \in 1..n |->
                    [i |-> k - 1,
                     mood |-> moodOf(norm[k]),
                     prompt |-> <<anchors[k], MOOD[moodOf(norm[k])],
                                  VISUAL_STYLE,
                                  Take(video_segments[k].lyrics, EXCERPT_LEN)>>]],
              norm |-> norm]

\* generate.js:211-226: one run of the prompt chaining over video_segments.
promptChain(run) ==
    /\ phase = "prompts"
    /\ chain[run].status = "none"
    /\ LET norm == normOf(video_segments)
           known == seeded(run)
       IN  \E s \in Streams(draws(Len(video_segments))) :
              /\ \A j \in 1..Len(s) : j <= Len(known) => s[j] = known[j]
              /\ stream' = IF Len(s) > Len(stream) THEN s ELSE stream
              /\ chain' = [chain EXCEPT ![run] = chainOf(s, norm)]
    /\ UNCHANGED <<segments, beat_times, rms, CLIP_DURATION, VISUAL_STYLE, phase,
                   cursor, current_start, current_text, video_segments>>
    /\ UNCHANGED <<submitVars, statusVars, downloadVars, sourceVars, clientVars>>

\* No kernel run under way.
IdleEngine ==
    /\ segments = <<>>
    /\ beat_times = {}
    /\ rms = <<>>
    /\ CLIP_DURATION = 1
    /\ VISUAL_STYLE = ""
    /\ phase = "idle"
    /\ cursor = 1
    /\ current_start = 0
    /\ current_text = <<>>
    /\ video_segments = <<>>
    /\ stream = <<>>
    /\ chain = [run \in Runs |-> NoChain]

\* ------------------------- the kernel source (generate.js:146-160, 28-35)

QUOTE == "'"

BACKSLASH == "\\"

NEWLINE == "\n"

\* The characters of a supplied value: a quote, a backslash, a line break,
\* and one for every other character.
Chars == {"a", QUOTE, BACKSLASH, NEWLINE}

\* The parameters buildKernelSource embeds between single quotes.
Params == {"songTitle", "visualStyle", "audioName"}

\* generate.js:28, 29 and 35: what stands in for a value that is missing or
\* empty; each default counts as one character.
DefaultOf(p) ==
    CASE p = "songTitle" -> <<"My Song">>
      [] p = "visualStyle" ->
            <<"cinematic photorealistic, golden hour lighting, shallow depth of field, 4K">>
      [] p = "audioName" -> <<"song.mp3">>

valueOf(p, raw) == IF raw = <<>> THEN DefaultOf(p) ELSE raw

\* generate.js:157, 158, 160: s.replace(/'/g, "\\'"): a backslash is put
\* before every quote, and nothing else is changed.
RECURSIVE escapeQuotes(_)
escapeQuotes(s) ==
    IF s = <<>> THEN <<>>
    ELSE (IF Head(s) = QUOTE THEN <<BACKSLASH, QUOTE>> ELSE <<Head(s)>>)
         \o escapeQuotes(Tail(s))

\* generate.js:157, 158, 160: what the template puts after its own closing
\* quote, up to the end of the line.
LineTail(p) ==
    IF p = "audioName"
    THEN <<".split(", QUOTE, "/", QUOTE, ")[-1]", NEWLINE>>
    ELSE <<")", NEWLINE>>

\* generate.js:157, 158, 160: the line of the source from the opening quote
\* of the parameter's literal.
embed(p, value) ==
    <<QUOTE>> \o escapeQuotes(value) \o <<QUOTE>> \o LineTail(p)

\* The position of the template's own closing quote in embed(p, value).
ownQuote(value) == Len(escapeQuotes(value)) + 2

\* Python reading a single-quoted string literal from position i on: a
\* backslash takes the next character with it, a quote ends the literal, a
\* line break or the end of the text before a quote is a SyntaxError (0).
RECURSIVE closingQuote(_, _)
closingQuote(src, i) ==
    IF i > Len(src) THEN 0
    ELSE IF src[i] = BACKSLASH THEN closingQuote(src, i + 2)
    ELSE IF src[i] = QUOTE THEN i
    ELSE IF src[i] = NEWLINE THEN 0
    ELSE closingQuote(src, i + 1)

NoLiteral == [status |-> "none", at |-> 0]

\* generate.js:146-160, called from createKaggleKernel (generate.js:281) with
\* the values of generate.js:28-35.
buildKernelSource ==
    /\ source = <<>>
    /\ source' = embed(param, valueOf(param, supplied))
    /\ UNCHANGED <<param, supplied, literal>>
    /\ UNCHANGED <<submitVars, statusVars, downloadVars, engineVars, clientVars>>

\* The kernel starts: Python reads the literal of the parameter.
readLiteral ==
    /\ source # <<>>
    /\ literal = NoLiteral
    /\ literal' =
          LET q == closingQuote(source, 2)
          IN  IF q = 0 THEN [status |-> "SyntaxError", at |-> 0]
              ELSE [status |-> "closed", at |-> q]
    /\ UNCHANGED <<param, supplied, source>>
    /\ UNCHANGED <<submitVars, statusVars, downloadVars, engineVars, clientVars>>

\* No kernel source under construction.
IdleSource ==
    /\ param = "songTitle"
    /\ supplied = <<>>
    /\ source = <<>>
    /\ literal = NoLiteral

\* ------------------------------------------------------ frontend/app.js

Slots == 1..MaxInflight

\* app.js:60
POLL_INTERVAL_MS == 20000

\* The terminal states of a kernel run, and how a run moves on the platform.
Terminal(k) == k \in {"complete", "error", "cancelled"}

KernelMoves ==
    {<<"queued", "running">>, <<"running", "complete">>,
     <<"queued", "error">>, <<"running", "error">>,
     <<"queued", "cancelAcknowledged">>, <<"running", "cancelAcknowledged">>,
     <<"cancelAcknowledged", "cancelled">>}

FreeSlot == [st |-> "free", resp |-> NoResponse]

\* The slot of a request whose fetch failed: free again, the failure noted.
FailedSlot == [st |-> "failed", resp |-> NoResponse]

IsFree(p) == poll[p].st \in {"free", "failed"}

\* A new request takes the first free slot.
FirstFree(p) ==
    /\ IsFree(p)
    /\ \A q \in Slots : q < p => ~IsFree(q)

SentSlot == [st |-> "sent", resp |-> NoResponse]

\* app.js:123-125
setProgress(d, pct) == [d EXCEPT !.fill = IF pct < 100 THEN pct ELSE 100]

\* app.js:127-130; the text of the status line is not part of the model.
setStatus(d, msg, pct) == setProgress(d, pct)

\* app.js:96-102: the stages that have a label.
STAGE_LABEL == {"analysis", "prompts", "clips", "assembly", "done"}

\* app.js:109-121: the stage indicators follow uiStage; the progress bar and,
\* for a stage with a label, the status line follow too.
updateStageUI(d, uiStage, progress) ==
    LET d1 == setProgress([d EXCEPT !.stage = uiStage], progress)
    IN  IF uiStage \in STAGE_LABEL THEN setStatus(d1, uiStage, progress) ELSE d1

\* app.js:140-144
showError(msg) ==
    /\ panel' = [panel EXCEPT !.progressPanel = FALSE, !.errorPanel = TRUE]
    /\ dom' = [dom EXCEPT !.errorText = msg]

\* app.js:90-92 without the clearInterval.
keepPolling == UNCHANGED <<timers, pollTimer>>

\* app.js:90-92
stopPolling ==
    /\ timers' = timers \ {pollTimer}
    /\ pollTimer' = 0

\* app.js:23-29 (and 14-21): a file is dropped or picked in the upload zone.
setFile ==
    /\ panel.uploadZone
    /\ selectedFile' = TRUE
    /\ panel' = [panel EXCEPT !.uploadZone = FALSE, !.settings = TRUE]
    /\ UNCHANGED <<pollTimer, timers, timerSeq, dom, gens, submits, poll, kstate>>
    /\ UNCHANGED <<submitVars, statusVars, downloadVars, engineVars, sourceVars>>

\* app.js:32-45: the synchronous part of startGeneration, up to the fetch of
\* /api/generate. The button sits in the settings panel.
startGeneration ==
    /\ selectedFile
    /\ panel.settings
    /\ submits < MaxSubmits
    /\ submits' = submits + 1
    /\ gens' = gens + 1
    /\ panel' = [panel EXCEPT !.settings = FALSE, !.progressPanel = TRUE]
    /\ dom' = setStatus(setProgress(dom, 0), "Uploading audio...", 3)
    /\ UNCHANGED <<selectedFile, pollTimer, timers, timerSeq, poll, kstate>>
    /\ UNCHANGED <<submitVars, statusVars, downloadVars, engineVars, sourceVars>>

\* app.js:45-53 with 62-65: /api/generate answered 200: the status line and
\* startPolling (a new interval, and the first pollStatus at once); the link
\* to the kernel is not part of the model. On the platform the push
\* re-queued the kernel, or was refused.
generateOk ==
    /\ gens > 0
    /\ gens' = gens - 1
    /\ \E p \in Slots, k \in {kstate, "queued"} :
        /\ FirstFree(p)
        /\ poll' = [poll EXCEPT ![p] = SentSlot]
        /\ kstate' = k
    /\ dom' = setStatus(dom, "Pipeline started on Kaggle", 5)
    /\ timerSeq' = timerSeq + 1
    /\ pollTimer' = timerSeq + 1
    /\ timers' = timers \cup {timerSeq + 1}
    /\ UNCHANGED <<selectedFile, panel, submits>>
    /\ UNCHANGED <<submitVars, statusVars, downloadVars, engineVars, sourceVars>>

\* app.js:45-47 and 54-56: /api/generate answered with an error, or the
\* fetch failed: showError.
generateFailed ==
    /\ gens > 0
    /\ gens' = gens - 1
    /\ showError("Upload failed")
    /\ UNCHANGED <<selectedFile, pollTimer, timers, timerSeq, submits, poll, kstate>>
    /\ UNCHANGED <<submitVars, statusVars, downloadVars, engineVars, sourceVars>>

\* app.js:63: an active interval fires and pollStatus sends its request.
tick(p) ==
    /\ timers # {}
    /\ FirstFree(p)
    /\ poll' = [poll EXCEPT ![p] = SentSlot]
    /\ UNCHANGED <<selectedFile, pollTimer, timers, timerSeq, panel, dom, gens,
                   submits, kstate>>
    /\ UNCHANGED <<submitVars, statusVars, downloadVars, engineVars, sourceVars>>

\* The status documents the platform can answer with while the kernel is in
\* state k: a failed or cancelled run may carry a failureMessage.
DocsIn(k) ==
    {StatusDoc(k, fm, Null, Null) :
        fm \in IF k \in {"error", "cancelled"} THEN {Null, "out of memory"}
               ELSE {Null}}

\* status.js:25-61 run for the request in slot p, the platform answering
\* with the status document of the kernel.
answerPollOk(p) ==
    /\ poll[p].st = "sent"
    /\ kstate # "absent"
    /\ \E ans \in DocsIn(kstate) :
        poll' = [poll EXCEPT ![p] =
                    [st |-> "answered", resp |-> StatusHandler("GET", ans)]]
    /\ UNCHANGED <<selectedFile, pollTimer, timers, timerSeq, panel, dom, gens,
                   submits, kstate>>
    /\ UNCHANGED <<submitVars, statusVars, downloadVars, engineVars, sourceVars>>

\* status.js:25-61 run for the request in slot p, the platform answering
\* with a non-success response (the only answer for a kernel that does not
\* exist).
answerPollError(p) ==
    /\ poll[p].st = "sent"
    /\ poll' = [poll EXCEPT ![p] =
                    [st |-> "answered",
                     resp |-> StatusHandler("GET", StatusFailure("fail", 404))]]
    /\ UNCHANGED <<selectedFile, pollTimer, timers, timerSeq, panel, dom, gens,
                   submits, kstate>>
    /\ UNCHANGED <<submitVars, statusVars, downloadVars, engineVars, sourceVars>>

\* app.js:85-87 with stopPolling added to the catch.
pollFailedStops(p) ==
    /\ poll[p].st = "sent"
    /\ poll' = [poll EXCEPT ![p] = FailedSlot]
    /\ stopPolling
    /\ UNCHANGED <<selectedFile, timerSeq, panel, dom, gens, submits, kstate>>
    /\ UNCHANGED <<submitVars, statusVars, downloadVars, engineVars, sourceVars>>

\* app.js:68-70 and 85-87: the fetch of /api/status rejects (or the body is
\* no JSON): the catch logs a warning.
pollFailed(p) ==
    /\ poll[p].st = "sent"
    /\ poll' = [poll EXCEPT ![p] = FailedSlot]
    /\ UNCHANGED <<selectedFile, pollTimer, timers, timerSeq, panel, dom, gens,
                   submits, kstate>>
    /\ UNCHANGED <<submitVars, statusVars, downloadVars, engineVars, sourceVars>>

\* `data.error` as the conditions of app.js:73 and 81 see it.
DataError(body) == IF body.tag = "error" THEN body.error # "" ELSE body.error

\* app.js:70-84 and 132-138: pollStatus from the arrival of the response;
\* the src of the result video is not part of the model.
pollStatus(p) ==
    /\ poll[p].st = "answered"
    /\ poll' = [poll EXCEPT ![p] = FreeSlot]
    /\ LET res == poll[p].resp
           data == res.body
       IN  IF res.code # 200
           THEN /\ showError(IF data.error # "" THEN data.error
                             ELSE "Status check failed")
                /\ stopPolling
           ELSE IF DataError(data)
           THEN /\ showError(IF ~Falsy(data.errorMessage) THEN data.errorMessage
                             ELSE "Pipeline failed on Kaggle")
                /\ stopPolling
           ELSE IF data.done
           THEN /\ stopPolling
                /\ panel' = [panel EXCEPT !.progressPanel = FALSE,
                                          !.resultPanel = TRUE]
                /\ dom' = updateStageUI(dom, data.uiStage, data.progress)
           ELSE /\ dom' = updateStageUI(dom, data.uiStage, data.progress)
                /\ UNCHANGED <<panel, pollTimer, timers>>
    /\ UNCHANGED <<selectedFile, timerSeq, gens, submits, kstate>>
    /\ UNCHANGED <<submitVars, statusVars, downloadVars, engineVars, sourceVars>>

\* app.js:146-154
resetApp ==
    /\ stopPolling
    /\ selectedFile' = FALSE
    /\ panel' = [uploadZone |-> TRUE, settings |-> FALSE, progressPanel |-> FALSE,
                 resultPanel |-> FALSE, errorPanel |-> FALSE]
    /\ UNCHANGED <<timerSeq, dom, gens, submits, poll, kstate>>
    /\ UNCHANGED <<submitVars, statusVars, downloadVars, engineVars, sourceVars>>

\* The kernel run moves on the platform.
kernelStep ==
    /\ \E k \in PlatformStates : <<kstate, k>> \in KernelMoves /\ kstate' = k
    /\ UNCHANGED <<selectedFile, pollTimer, timers, timerSeq, panel, dom, gens,
                   submits, poll>>
    /\ UNCHANGED <<submitVars, statusVars, downloadVars, engineVars, sourceVars>>

\* The page as loaded: the upload zone, nothing selected, no timer. On the
\* platform the kernel does not exist yet, or is there from an earlier run.
ClientInit ==
    /\ selectedFile = FALSE
    /\ pollTimer = 0
    /\ timers = {}
    /\ timerSeq = 0
    /\ panel = [uploadZone |-> TRUE, settings |-> FALSE, progressPanel |-> FALSE,
                resultPanel |-> FALSE, errorPanel |-> FALSE]
    /\ dom = [errorText |-> "", fill |-> 0, stage |-> ""]
    /\ gens = 0
    /\ submits = 0
    /\ poll = [p \in Slots |-> FreeSlot]
    /\ kstate \in {"absent", "complete"}

SubmitInit ==
    /\ pc = [r \in Reqs |-> "idle"]
    /\ input = [r \in Reqs |-> NoInput]
    /\ loc = [r \in Reqs |-> NoLoc]
    /\ http = [r \in Reqs |-> 0]
    /\ hist = [r \in Reqs |-> NoHist]
    /\ dataset = NoSlots
    /\ uploaded = {}
    /\ kernel = NoSlots

Init ==
    SubmitInit /\ IdleStatus /\ IdleDownload /\ IdleEngine /\ IdleSource /\ ClientInit

\* The overlapping invocations of Spec all carry a form without a
\* clip-duration field; FormSpec runs one invocation over every form.
SubmitFields == {<<>>}

Next ==
    \E r \in Reqs :
        \/ HandlerEntry(r, SubmitFields)
        \/ checkDatasetExists(r)
        \/ requestTicket(r)
        \/ uploadBytes(r)
        \/ finalizeDataset(r)
        \/ checkKernelExists(r)
        \/ createKaggleKernel(r)

Spec == Init /\ [][Next]_vars

FormNext ==
    \/ HandlerEntry(1, ClipFields)
    \/ checkDatasetExists(1)
    \/ requestTicket(1)
    \/ uploadBytes(1)
    \/ finalizeDataset(1)
    \/ checkKernelExists(1)
    \/ createKaggleKernel(1)

FormSpec == Init /\ [][FormNext]_vars

\* A status request arrives and the platform has its answer ready.
StatusInit ==
    /\ SubmitInit
    /\ ClientInit
    /\ IdleDownload
    /\ IdleEngine
    /\ IdleSource
    /\ statusIn \in [method : {"GET", "POST"}, ans : PlatformAnswers]
    /\ statusOut = NoResponse

StatusSpec == StatusInit /\ [][StatusRequest]_vars

\* A download request arrives and the platform has its answers ready.
DownloadInit ==
    /\ SubmitInit
    /\ ClientInit
    /\ IdleStatus
    /\ IdleEngine
    /\ IdleSource
    /\ downloadIn \in [method : {"GET", "POST"}, list : ListAnswers,
                        file : FileAnswers]
    /\ downloadOut = NoDownload

DownloadSpec == DownloadInit /\ [][DownloadRequest]_vars

\* ------------------------------------------------- inputs of the kernel

\* k spans over Times, increasing and not overlapping; the text of a span is
\* its position in the transcript.
Transcripts(k) ==
    {[i \in 1..k |-> [start |-> s[i].start, end |-> s[i].end, text |-> i]] :
        s \in {t \in [1..k -> [start : Times, end : Times]] :
                  \A i \in 1..k :
                      /\ t[i].start <= t[i].end
                      /\ i < k => t[i].end <= t[i + 1].start}}

BeatSets == {b \in SUBSET Times : Cardinality(b) <= MaxBeats}

\* Energy curves sampled up to h: the same amplitude at every time, or a
\* rising amplitude at the odd times.
Flat(h) == [t \in 0..h |-> Unit \div 4]

Ramp(h) == [t \in {x \in 0..h : x % 2 = 1} |-> t]

\* A 180-second input with 40 spans of 2 seconds, the first at `first`, the
\* gaps between them a, b, b, .. repeating with period p.
Layout(a, b, p, first) ==
    [k \in 1..40 |->
        LET c == (k + p - 2) \div p
            from == first + 2 * (k - 1) + c * a + (k - 1 - c) * b
        IN  [start |-> from, end |-> from + 2, text |-> k]]

\* 40 spans averaging 2 seconds: one of 79 seconds and all others, of which
\* one lasts a second, at its end.
FewLayout ==
    [k \in 1..40 |->
        IF k = 1 THEN [start |-> 0, end |-> 79, text |-> k]
        ELSE [start |-> 79, end |-> IF k = 40 THEN 80 ELSE 79, text |-> k]]

\* 40 spans averaging 2 seconds: 23 empty ones at 0, then 12 of 5 seconds and
\* 5 of 4 seconds, each ending 15 seconds after the start of the one before.
ManyLayout ==
    [k \in 1..40 |->
        IF k <= 23 THEN [start |-> 0, end |-> 0, text |-> k]
        ELSE LET i == k - 23
                 from == IF i <= 12 THEN 10 * i ELSE 11 * i - 12
             IN  [start |-> from, end |-> from + (IF i <= 12 THEN 5 ELSE 4),
                  text |-> k]]

ScenarioTranscripts ==
    {t \in {Layout(a, b, p, f) : a \in 0..4, b \in 0..3, p \in {2, 3, 5},
                                 f \in {0, 2}} : t[40].end <= 180}
    \cup {FewLayout, ManyLayout}

\* The segment lists the prompt chaining is run over: every list of up to
\* MaxSegs segments over three energies, and two long ones.
EnergyValues == {Rat(0, 1), Rat(1, 1), DEFAULT_ENERGY}

SegmentOf(k, e) ==
    [start |-> k - 1, end |-> k, lyrics |-> <<k>>, energy |-> e, beat_count |-> 0]

SegmentLists ==
    UNION {{[k \in 1..n |-> SegmentOf(k, e[k])] : e \in [1..n -> EnergyValues]} :
              n \in 0..MaxSegs}
    \cup {[k \in 1..n |-> SegmentOf(k, Rat(k % 3, 1))] : n \in {7, 20}}

\* The client of a page that is not used.
IdleClient == ClientInit /\ kstate = "absent"

\* The kernel starts on the analysis of an audio file: every small
\* transcript, or a 180-second one with a clip duration of 15.
EngineInit ==
    /\ SubmitInit
    /\ IdleStatus
    /\ IdleDownload
    /\ IdleClient
    /\ IdleSource
    /\ \/ /\ segments \in UNION {Transcripts(k) : k \in 0..MaxSpans}
          /\ beat_times \in BeatSets
          /\ rms \in {Flat(MaxTime), Ramp(MaxTime)}
          /\ CLIP_DURATION \in 1..MaxClip
       \/ /\ segments \in ScenarioTranscripts
          /\ beat_times = {}
          /\ rms = Ramp(180)
          /\ CLIP_DURATION = 15
    /\ VISUAL_STYLE = "cinematic"
    /\ phase = "scan"
    /\ cursor = 1
    /\ current_start = 0
    /\ current_text = <<>>
    /\ video_segments = <<>>
    /\ stream = <<>>
    /\ chain = [run \in Runs |-> NoChain]

EngineNext ==
    \/ scanSegment
    \/ finishScan
    \/ promptChain(1)

EngineSpec == EngineInit /\ [][EngineNext]_vars

\* Two runs of the prompt chaining over the same segments and style.
PromptInit ==
    /\ SubmitInit
    /\ IdleStatus
    /\ IdleDownload
    /\ IdleClient
    /\ IdleSource
    /\ segments = <<>>
    /\ beat_times = {}
    /\ rms = <<>>
    /\ CLIP_DURATION = 1
    /\ VISUAL_STYLE \in {"cinematic", "anime"}
    /\ phase = "prompts"
    /\ cursor = 1
    /\ current_start = 0
    /\ current_text = <<>>
    /\ video_segments \in SegmentLists
    /\ stream = <<>>
    /\ chain = [run \in Runs |-> NoChain]

PromptNext == \E run \in Runs : promptChain(run)

PromptSpec == PromptInit /\ [][PromptNext]_vars

\* The values a form may carry for a parameter.
Inputs == UNION {[1..k -> Chars] : k \in 0..MaxChars}

\* A kernel source is built for one parameter and one supplied value.
SourceInit ==
    /\ SubmitInit
    /\ IdleStatus
    /\ IdleDownload
    /\ IdleClient
    /\ IdleEngine
    /\ param \in Params
    /\ supplied \in Inputs
    /\ source = <<>>
    /\ literal = NoLiteral

SourceNext ==
    \/ buildKernelSource
    \/ readLiteral

SourceSpec == SourceInit /\ [][SourceNext]_vars

\* One job from the selection of the file to the end of its polling.
JobNext ==
    \/ setFile
    \/ startGeneration
    \/ generateOk
    \/ generateFailed
    \/ kernelStep
    \/ \E p \in Slots :
        \/ tick(p)
        \/ answerPollOk(p)
        \/ answerPollError(p)
        \/ pollFailed(p)
        \/ pollStatus(p)

\* The same, the user resetting the page at any time.
PollNext ==
    \/ JobNext
    \/ resetApp

PollSpec == Init /\ [][PollNext]_vars

\* setInterval keeps firing, every request ends (answered or failed), and
\* the callbacks run; the kernel run keeps moving until it is terminal, and
\* the status read is answered with the status document again and again.
PollFairness ==
    /\ WF_vars(\E p \in Slots : tick(p))
    /\ WF_vars(kernelStep)
    /\ WF_vars(generateOk \/ generateFailed)
    /\ \A p \in Slots :
        /\ WF_vars(answerPollOk(p) \/ answerPollError(p) \/ pollFailed(p))
        /\ SF_vars(answerPollOk(p))
        /\ WF_vars(pollStatus(p))

PollFairSpec == Init /\ [][JobNext]_vars /\ PollFairness

\* =================================================================== claims

\* r passed its slot push (createKaggleDataset / updateKaggleDataset returned
\* normally).
SlotDone(r) == hist[r].slotDone

\* C1: the job definition is pushed only after the input slot exists and the
\* invocation's own slot push succeeded: no invocation stands at the
\* job-definition push while the input slot is absent or its push failed.
C1_PushOnlyAfterInputSlot ==
    \A r \in Reqs :
        pc[r] = "push" => DatasetPresent /\ hist[r].ver > 0

\* C2: whenever one of the three remote steps of the slot push was answered
\* with a non-success response, the slot push does not complete normally: the
\* invocation never goes on to the job slot and ends with an error.
C2_SlotStepFailureFails ==
    \A r \in Reqs :
        hist[r].failed # {} =>
            /\ ~SlotDone(r)
            /\ pc[r] \notin {"checkKernel", "push"}
            /\ pc[r] = "done" => http[r] = 500

\* C3: two slot pushes in sequence (the second started after the first
\* returned, the first started with no slot), both returned normally: the
\* first took the create path, the second the revise path, their version
\* tokens are distinct and increasing, and one slot exists.
C3_TwoPushesTwoVersions ==
    \A r1, r2 \in Reqs :
        (/\ r1 \in hist[r2].after
         /\ hist[r1].after = {} /\ hist[r1].absent
         /\ SlotDone(r1) /\ SlotDone(r2))
        => /\ hist[r1].path = "create"
           /\ hist[r2].path = "revise"
           /\ 0 < hist[r1].ver /\ hist[r1].ver < hist[r2].ver
           /\ Cardinality(DOMAIN dataset) = 1

\* A POST whose form parsed and carries no audio file.
NoAudio(in) == in.method = "POST" /\ in.parsed /\ ~in.hasAudio

C9_State ==
    \A r \in Reqs :
        pc[r] # "idle" /\ NoAudio(input[r]) =>
            pc[r] = "done" /\ http[r] = 400 /\ hist[r].calls = 0

C9_Step ==
    \A r \in Reqs :
        pc[r] = "idle" /\ pc'[r] # "idle" /\ NoAudio(input'[r]) =>
            /\ pc'[r] = "done" /\ http'[r] = 400
            /\ <<dataset, uploaded, kernel>>' = <<dataset, uploaded, kernel>>

\* C9: a submission without an input asset is answered 400 at once, has issued
\* no remote request (no existence check, upload, finalize or push), and the
\* step that rejects it leaves the remote slots as they were.
C9_MissingInputRejected == []C9_State /\ [][C9_Step]_vars

\* C9 witness: a submission without audio was rejected while another
\* invocation had already created the input slot.
C9_Witness ==
    \E r \in Reqs :
        /\ pc[r] = "done" /\ NoAudio(input[r]) /\ http[r] = 400
        /\ DatasetPresent

\* A POST whose form parsed and carries an audio file but a clip duration
\* that is not a positive integer.
BadClip(in) ==
    /\ in.method = "POST" /\ in.parsed /\ in.hasAudio
    /\ ~PositiveInt(clipDurationOf(in.clip))

\* C10: a submission whose clip duration is not a positive integer is
\* rejected at once with a validation error (400), before any remote request
\* is issued; no job definition is ever built from such a value.
C10_BadClipRejected ==
    /\ \A r \in Reqs :
          pc[r] # "idle" /\ BadClip(input[r]) =>
              pc[r] = "done" /\ http[r] = 400 /\ hist[r].calls = 0
    /\ KernelPresent => PositiveInt(kernel[KERNEL_SLUG].clip)

\* The handler answered a status document with a snapshot.
Snapshot == statusOut.code = 200

\* C4: the snapshot follows the status table: 'queued' and every state the
\* table does not name give uiStage 'analysis', progress between 2 and 5, and
\* a non-terminal snapshot; 'error' gives uiStage 'error' and 'cancelled'
\* gives uiStage 'cancelled', both with progress 0, done false, errored true.
C4_StatusTable ==
    Snapshot =>
        LET st == statusIn.ans.status
            b == statusOut.body
        IN  /\ st \notin {"running", "complete", "error", "cancelled"} =>
                /\ b.uiStage = "analysis"
                /\ 2 <= b.progress /\ b.progress <= 5
                /\ ~b.done /\ ~b.error
            /\ st \in {"error", "cancelled"} =>
                /\ b.uiStage = st
                /\ b.progress = 0
                /\ ~b.done /\ b.error

C6_StatusErrorKeepsPolling ==
    [][\A p \in Slots :
          (/\ poll[p].st = "answered" /\ poll[p].resp.code # 200
           /\ poll'[p].st = "free"
           /\ pollTimer # 0)
          => pollTimer' = pollTimer /\ pollTimer' \in timers']_vars

\* The step in which the fetch of /api/status of slot p fails.
PollFailure(p) == poll[p].st = "sent" /\ poll'[p].st = "failed"

C7_Step ==
    \A p \in Slots :
        PollFailure(p) =>
            /\ pollTimer' = pollTimer /\ timers' = timers
            /\ panel' = panel /\ dom' = dom

\* The result or an error is on the page.
Shown == panel.resultPanel \/ panel.errorPanel

\* C7: a failed status request (the fetch throws) leaves the polling timer
\* active and every panel and text as it was, so no error is shown and the
\* next tick polls again; and once the kernel run is terminal while the timer
\* is set, the client comes to show the result or an error.
C7_TransientFailureKeepsPolling ==
    /\ [][C7_Step]_vars
    /\ (pollTimer # 0 /\ Terminal(kstate)) ~> Shown

\* C7 witness: a status request failed, the timer is still active, no error
\* is shown, and the kernel run is terminal.
C7_Witness ==
    /\ \E p \in Slots : poll[p].st = "failed"
    /\ pollTimer # 0 /\ pollTimer \in timers
    /\ ~panel.errorPanel /\ panel.progressPanel
    /\ Terminal(kstate)

\* The listing the platform answered with holds no file whose name ends with
\* the artifact suffix.
NoArtifact(list) ==
    \A i \in 1..Len(list.files) :
        ~(/\ list.files[i].hasName
          /\ endsWith(list.files[i].fileName, ARTIFACT_SUFFIX))

\* C8: a download requested while the output listing holds no file whose
\* name ends with the artifact suffix is answered with the not-ready
\* response, 404 with the names of the files in the listing, and with no
\* other error, whatever the platform answered to the listing read.
C8_NotReadyWhateverListing ==
    /\ downloadOut # NoDownload
    /\ downloadIn.method = "GET"
    /\ downloadIn.list.kind # "neterr"
    /\ NoArtifact(downloadIn.list)
    => /\ downloadOut.code = 404
       /\ downloadOut.tag = "notReady"
       /\ Len(downloadOut.files) = Len(downloadIn.list.files)

\* C11: when the job-definition push fails (a non-success response or a
\* network error) after the invocation's input slot push succeeded, the
\* submission ends with an error and not with the job handle, and the input
\* slot keeps the version that was pushed, or a later one.
C11_JobPushFailureFails ==
    \A r \in Reqs :
        (/\ pc[r] = "done"
         /\ hist[r].ver > 0
         /\ hist[r].kpush \in {"fail", "neterr"})
        => /\ http[r] = 500
           /\ DatasetPresent
           /\ dataset[DATASET_SLUG].version >= hist[r].ver

\* A terminal state of the job is on the page: the result, or the error of a
\* failed or cancelled run.
TerminalShown ==
    \/ panel.resultPanel
    \/ panel.errorPanel
         /\ dom.errorText \in {"out of memory", "Pipeline failed on Kaggle"}

\* The stages a snapshot of a run that has not ended carries.
NonTerminalStages == {"queued", "analysis", "prompts", "clips", "assembly"}

\* C12: the job state shown only moves forward: once a terminal state is on
\* the page, no poll response handled later, one that was in flight
\* included, sets the stage indicator to a non-terminal stage or takes the
\* terminal panel away.
C12_ShownStateOnlyForward ==
    [][\A p \in Slots :
          (/\ TerminalShown
           /\ poll[p].st = "answered" /\ poll'[p].st = "free")
          => /\ dom'.stage \in NonTerminalStages => dom'.stage = dom.stage
             /\ panel.resultPanel => panel'.resultPanel
             /\ panel.errorPanel => panel'.errorPanel
             /\ ~panel'.progressPanel]_vars

\* The segmentation is over.
Segmented == phase = "prompts"

\* Each segment starts where the one before it ends, and none ends before it
\* starts.
Contiguous ==
    /\ \A k \in 1..Len(video_segments) :
          video_segments[k].start <= video_segments[k].end
    /\ \A k \in 1..(Len(video_segments) - 1) :
          video_segments[k + 1].start = video_segments[k].end

\* C13 as stated: for increasing, non-overlapping spans and a positive clip
\* duration the segments are contiguous, do not overlap, and cover exactly
\* [firstSpanStart, lastSpanEnd].
C13_Original ==
    Segmented /\ segments # <<>> =>
        /\ Contiguous
        /\ video_segments # <<>>
        /\ video_segments[1].start = segments[1].start
        /\ video_segments[Len(video_segments)].end = lastEnd

\* C13 amended: for increasing, non-overlapping spans and a positive clip
\* duration the segments are contiguous, do not overlap, and cover exactly
\* [0, lastSpanEnd]: the first segment starts at 0, not at the first span.
C13_SegmentsCoverFromZero ==
    Segmented /\ segments # <<>> =>
        /\ Contiguous
        /\ video_segments # <<>>
        /\ video_segments[1].start = 0
        /\ video_segments[Len(video_segments)].end = lastEnd

\* C13 witness: a transcript whose first span starts after 0 was cut into
\* several segments.
C13_Witness ==
    /\ Segmented
    /\ segments # <<>> /\ segments[1].start > 0
    /\ Len(video_segments) >= 2
    /\ video_segments[1].start = 0

\* Whether beat b lies in the interval of segment k: closed for the final
\* segment, half-open for those closed during the scan.
InSegment(k, b) ==
    /\ video_segments[k].start <= b
    /\ IF k = Len(video_segments)
       THEN b <= video_segments[k].end
       ELSE b < video_segments[k].end

\* C14: every emitted segment's beat_count is the number of beat timestamps
\* in its interval, [start, end) for the segments closed during the scan
\* and [start, lastEnd] for the final one, so every beat between the first
\* segment's start and the last span's end is counted in exactly one
\* segment.
C14_BeatsCountedOnce ==
    (Segmented /\ segments # <<>>) =>
        /\ video_segments[Len(video_segments)].end = lastEnd
        /\ \A k \in 1..Len(video_segments) :
              video_segments[k].beat_count =
                  Cardinality({b \in beat_times : InSegment(k, b)})
        /\ \A b \in beat_times :
              (video_segments[1].start <= b /\ b <= lastEnd) =>
                  Cardinality({k \in 1..Len(video_segments) : InSegment(k, b)}) = 1

\* A beat on the last span's end is counted by the final segment of several.
C14_Witness ==
    /\ Segmented
    /\ Len(video_segments) >= 2
    /\ lastEnd \in beat_times
    /\ video_segments[Len(video_segments)].beat_count >= 1
    /\ video_segments[Len(video_segments)].start < lastEnd

\* Segment k has the least (greatest) energy of video_segments.
IsMin(k) ==
    \A j \in 1..Len(video_segments) :
        ~RatLess(video_segments[j].energy, video_segments[k].energy)

IsMax(k) ==
    \A j \in 1..Len(video_segments) :
        ~RatLess(video_segments[k].energy, video_segments[j].energy)

AllEqual == \A k \in 1..Len(video_segments) : IsMin(k)

Zero == Rat(0, 1)

One == Rat(1, 1)

\* C15 as stated: every normalised energy lies in [0,1], the segment of
\* least energy maps to exactly 0 and the one of greatest energy to exactly
\* 1; with all energies equal every segment maps to 0 and to the tier
\* 'low'.
C15_Original ==
    \A run \in Runs :
        chain[run].status = "ok" =>
            \A k \in 1..Len(video_segments) :
                /\ ~RatLess(chain[run].norm[k], Zero)
                /\ ~RatLess(One, chain[run].norm[k])
                /\ IsMin(k) => chain[run].norm[k] = Zero
                /\ (IsMax(k) /\ ~AllEqual) => chain[run].norm[k] = One
                /\ AllEqual => chain[run].prompts[k].mood = "low"

\* C15: every normalised energy lies in [0,1), the segment of least energy
\* maps to exactly 0, the one of greatest energy to
\* (max - min) / (max - min + epsilon), which is the greatest of the
\* sequence and below 1; with all energies equal every segment maps to 0
\* and to the tier 'low'.
C15_NormalisedBelowOne ==
    \A run \in Runs :
        chain[run].status = "ok" =>
            \A k \in 1..Len(video_segments) :
                /\ ~RatLess(chain[run].norm[k], Zero)
                /\ RatLess(chain[run].norm[k], One)
                /\ IsMin(k) => chain[run].norm[k] = Zero
                /\ (IsMax(k) /\ ~AllEqual) =>
                      /\ RatLess(Zero, chain[run].norm[k])
                      /\ \A j \in 1..Len(video_segments) :
                            ~RatLess(chain[run].norm[k], chain[run].norm[j])
                /\ AllEqual => chain[run].prompts[k].mood = "low"

\* A run over segments of different energies has normalised them, and a
\* segment of the tier 'high' is among them.
C15_Witness ==
    /\ chain[1].status = "ok"
    /\ ~AllEqual
    /\ \E k \in 1..Len(video_segments) :
          /\ IsMax(k)
          /\ chain[1].prompts[k].mood = "high"
          /\ RatLess(chain[1].norm[k], One)
    /\ \E k \in 1..Len(video_segments) :
          IsMin(k) /\ chain[1].norm[k] = Zero

\* C16 as stated: with zero transcript spans the engine produces zero
\* segments, and the prompt chaining that follows completes without an
\* error and yields an empty prompt list.
C16_EmptyTranscriptCompletes ==
    (segments = <<>> /\ Segmented) =>
        /\ video_segments = <<>>
        /\ chain[1].status # "none" =>
              chain[1].status = "ok" /\ chain[1].prompts = <<>>

\* The run over zero spans has ended in the ValueError of min() on the empty
\* energy list.
C16_Crash ==
    /\ segments = <<>>
    /\ video_segments = <<>>
    /\ chain[1].status = "ValueError"

Scenario ==
    /\ Segmented
    /\ Len(segments) = 40
    /\ CLIP_DURATION = 15
    /\ lastEnd <= 180
    /\ SumOver([k \in 1..40 |-> segments[k].end - segments[k].start], 1..40) = 80
    /\ \A k \in 1..39 : segments[k].end <= segments[k + 1].start

\* C18 as stated: the scenario yields between 11 and 13 segments.
C18_Original ==
    Scenario => (11 <= Len(video_segments) /\ Len(video_segments) <= 13)

\* C18: the scenario yields at least 2 and at most 18 segments.
C18_ScenarioSegmentCount ==
    Scenario => (2 <= Len(video_segments) /\ Len(video_segments) <= 18)

\* 40 spans of 2 seconds each, spread over the 180 seconds, have given 14
\* segments.
C18_Witness ==
    /\ Scenario
    /\ \A k \in 1..40 : segments[k].end = segments[k].start + 2
    /\ segments[40].end >= 178
    /\ Len(video_segments) = 14

\* The anchor of the prompt of segment k (counted from 1) in a run.
AnchorOf(run, k) == chain[run].prompts[k].prompt[1]

Handles(p, k) ==
    /\ poll[p].st = "answered"
    /\ poll'[p].st = "free"
    /\ poll[p].resp.code = 200
    /\ poll[p].resp.body.tag = "snapshot"
    /\ poll[p].resp.body.kaggleStatus = k

\* The polling is over: no interval is left, no submission is under way and
\* the error or the result is on the page.
Stopped ==
    /\ pollTimer = 0
    /\ timers = {}
    /\ gens = 0
    /\ panel.errorPanel \/ panel.resultPanel

C21_DuplicatePollsHarmless ==
    ~(panel.resultPanel /\ panel.errorPanel)

\* The page as resetApp leaves it, the user not having acted since: the
\* upload zone alone and no file selected.
Idle ==
    /\ panel = [uploadZone |-> TRUE, settings |-> FALSE, progressPanel |-> FALSE,
                resultPanel |-> FALSE, errorPanel |-> FALSE]
    /\ ~selectedFile

\* C22: after resetApp the client is idle: no polling timer is active, no
\* further status request is sent, and no response to a request started
\* before the reset (a status poll or the submission) changes which panel
\* is shown or starts the polling again. Only the user's next file changes
\* the page.
C22_ResetIsIdle ==
    [][Idle =>
          /\ timers' = {}
          /\ pollTimer' = 0
          /\ \A p \in Slots : poll'[p].st = "sent" => poll[p].st = "sent"
          /\ panel' # panel => (selectedFile' /\ panel'.settings)]_vars

\* C23: of two submissions started while the input slot does not exist, at
\* most one runs the create sequence and the other runs the revise
\* sequence, whatever the interleaving, so that the slot is created once.
C23_SlotCreatedOnce ==
    \A r1, r2 \in Reqs :
        (r1 # r2 /\ hist[r1].absent /\ hist[r2].absent)
        => ~(hist[r1].path = "create" /\ hist[r2].path = "create")

\* C24: whatever title, style or file name is supplied, the value that
\* buildKernelSource embeds stays inside its single-quoted literal: Python
\* reads the literal up to the template's own closing quote, and no quote,
\* backslash or line break of the value ends it before.
C24_ValueStaysInLiteral ==
    literal # NoLiteral =>
        /\ literal.status = "closed"
        /\ literal.at = ownQuote(valueOf(param, supplied))

============================================================================
